---------------------------- MODULE Spec2Model ----------------------------
(***************************************************************************)
(* OneSource backend: the fan-out aggregator (connectorhub.gather_         *)
(* candidates), the fusion ranker (fusion.rank), the policy guard          *)
(* (policy.guard) and the /ask handler (main.ask_endpoint) that chains     *)
(* them.                                                                   *)
(*                                                                         *)
(* Conventions of the model                                                *)
(*  - scores are fixed-point integers: the score components are in         *)
(*    millionths (1000000 = 1.0), a total is in ten-millionths because     *)
(*    the weights 0.5/0.4/0.2 are applied as 5/4/2;                        *)
(*  - a dict of the code is a function whose DOMAIN is the set of keys;    *)
(*  - doc_id and url are opaque identifiers (naturals);                    *)
(*  - a text (a snippet) is a sequence of atoms, runs of characters the   *)
(*    patterns of the guard treat alike; the atom "Q" stands for an        *)
(*    occurrence of the query text.                                        *)
(***************************************************************************)
EXTENDS Integers, Sequences, FiniteSets, TLC

VARIABLES
    registered,   \* connectorhub: adapters that imported and have search_corpus
    call,         \* connectorhub: one runner task per provider
    gc,           \* gather_candidates: "idle", "waiting", "returned", "raised"
    merged,       \* gather_candidates: the candidate list it returns
    timings,      \* gather_candidates: the outcomes mapping it returns
    ask,          \* ask_endpoint: the request and its response
    TRACE_STORE,  \* main.TRACE_STORE
    rk_in,        \* rank: the candidate list and query handed to rank
    rk_out,       \* rank: what rank returned
    gd_in,        \* guard: the winner and ranked list handed to guard
    gd_out,       \* guard: what guard returned
    finished      \* asyncio.gather: the runners in the order they completed

vars == <<registered, call, gc, merged, timings, ask, TRACE_STORE, rk_in, rk_out,
         gd_in, gd_out, finished>>

hubVars == <<registered, call, gc, merged, timings, ask, TRACE_STORE>>
rankVars == <<rk_in, rk_out>>
guardVars == <<gd_in, gd_out>>

-----------------------------------------------------------------------------
(* Bounds of the model *)

\* longest raw list a provider returns when several providers are registered
MaxItems == 2
\* longest raw list a provider returns when it is the only registered provider
MaxItemsSolo == 3
\* longest candidate list handed to rank directly
MaxCands == 3

(* Program constants *)

\* ask_endpoint calls gather_candidates(limit=5)
Limit == 5
\* timeout_each = 3.0 seconds, in milliseconds
TimeoutMs == 3000
\* consensus bump 0.05, in ten-millionths
ConsensusBonus == 500000

-----------------------------------------------------------------------------
(* Generic helpers *)

Max(a, b) == IF a >= b THEN a ELSE b
Min(a, b) == IF a <= b THEN a ELSE b

\* d[k] = v of a Python dict
DictSet(d, k, v) == [x \in (DOMAIN d) \cup {k} |-> IF x = k THEN v ELSE d[x]]

\* the empty dict
EmptyDict == [x \in {} |-> 0]

RECURSIVE SeqSum(_)
SeqSum(s) == IF s = <<>> THEN 0 ELSE Head(s) + SeqSum(Tail(s))

\* all sequences over S of length lo..hi
SeqsOf(S, lo, hi) == UNION {[1..n -> S] : n \in lo..hi}

-----------------------------------------------------------------------------
(* schemas.NormalizedCandidate *)

Sources == {"slack", "drive", "github"}

\* signals: the keys the authority rules read. approved_pr is
\* [k |-> "missing"] (key absent), [k |-> "int", v |-> n],
\* [k |-> "null"] (None) or [k |-> "text"] (a non-numeric string).
NoSignals ==
    [path_hint |-> "", approved_pr |-> [k |-> "missing", v |-> 0],
     owner_team |-> FALSE, folder |-> "", pinned |-> FALSE,
     accepted |-> FALSE, sme_author |-> FALSE]

NormalizedCandidate(src, did, u, th, snip, lm, sig) ==
    [source |-> src, doc_id |-> did, url |-> u, title_hit |-> th,
     snippet |-> snip, age |-> lm, signals |-> sig]


-----------------------------------------------------------------------------
(* fusion/rank.py *)

\* faulty variant: the score grows with the age
FreshnessInverted(age) == 1000000 - (7 * 1000000) \div (7 + Max(0, age))
\* faulty variant: the age is not clamped at zero
FreshnessClampDropped(age) == (7 * 1000000) \div (7 + (IF age < -6 THEN -6 ELSE age))
\* _freshness_score: 1.0 / (1.0 + age_days / 7.0) = 7 / (7 + age_days), with
\* age_days = max(0.0, now - dt); age is in whole days, negative for a
\* last_modified later than now. Millionths, rounded down.
_freshness_score(age) == (7 * 1000000) \div (7 + Max(0, age))

\* 0.2 * log10(1 + apr) in millionths, rounded down, for the approval counts
\* the model uses
Log10Bonus(apr) ==
    CASE apr = 0 -> 0
      [] apr = 1 -> 60205
      [] apr = 3 -> 120411
      [] apr = 9 -> 200000
      [] apr = 10 -> 208278
      [] apr = 30 -> 298272
      [] apr = 99 -> 400000
      [] apr = 100 -> 400864
      [] apr = 1000 -> 600086

\* int(s.get("approved_pr", 0)) raises for None and for a non-numeric string
_authority_raises(c) ==
    c.source = "github" /\ c.signals.approved_pr.k \in {"null", "text"}

_authority_score(c) ==
    LET s == c.signals IN
    CASE c.source = "github" ->
           LET base == IF s.path_hint \in {"/docs", "wiki"} THEN 250000 ELSE 0
               apr == Max(0, IF s.approved_pr.k = "int" THEN s.approved_pr.v ELSE 0)
               pr_bonus == Min(500000, Log10Bonus(apr))
           IN base + pr_bonus
      [] c.source = "drive" ->
           (IF s.owner_team THEN 250000 ELSE 0)
           + (IF s.folder = "Runbooks" THEN 150000 ELSE 0)
      [] c.source = "slack" ->
           (IF s.pinned THEN 250000 ELSE 0) + (IF s.accepted THEN 200000 ELSE 0)
           + (IF s.sme_author THEN 100000 ELSE 0)
      [] OTHER -> 0

\* q in c.snippet.lower(): the atom "Q" is an occurrence of the query
BodyHit(c, query) == query = "" \/ \E i \in 1..Len(c.snippet) : c.snippet[i] = "Q"
TitleHit(c, query) == query = "" \/ c.title_hit

_specificity_score(c, query) ==
    (IF TitleHit(c, query) THEN 150000 ELSE 0)
    + (IF BodyHit(c, query) THEN 50000 ELSE 0)

\* 0.5*fresh + 0.4*auth + 0.2*spec, in ten-millionths
score_candidate(c, query) ==
    5 * _freshness_score(c.age) + 4 * _authority_score(c)
    + 2 * _specificity_score(c, query)

\* f"{x:.2f}": millionths to hundredths
Fmt2(x) == (x + 5000) \div 10000

\* lines 43-50: scores[c.doc_id] = s, reasons[c.doc_id] = [fresh, auth, spec]
RECURSIVE ScoreLoop(_, _, _, _)
ScoreLoop(cands, query, scores, reasons) ==
    IF cands = <<>> THEN [scores |-> scores, reasons |-> reasons]
    ELSE LET c == Head(cands)
             r == << <<"fresh", Fmt2(_freshness_score(c.age))>>,
                     <<"auth", Fmt2(_authority_score(c))>>,
                     <<"spec", Fmt2(_specificity_score(c, query))>> >>
         IN ScoreLoop(Tail(cands), query,
                      DictSet(scores, c.doc_id, score_candidate(c, query)),
                      DictSet(reasons, c.doc_id, r))

\* lines 52-54: by_url.setdefault(c.url, []).append(c.doc_id); the dict keeps
\* insertion order, so it is a sequence of [url, ids] entries
RECURSIVE ByUrl(_, _)
ByUrl(cands, by_url) ==
    IF cands = <<>> THEN by_url
    ELSE LET c == Head(cands)
             hit == {i \in 1..Len(by_url) : by_url[i].url = c.url}
             next == IF hit = {}
                     THEN Append(by_url, [url |-> c.url, ids |-> <<c.doc_id>>])
                     ELSE [i \in 1..Len(by_url) |->
                             IF i \in hit
                             THEN [by_url[i] EXCEPT !.ids = Append(@, c.doc_id)]
                             ELSE by_url[i]]
         IN ByUrl(Tail(cands), next)

\* lines 57-59: for did in ids: scores[did] += 0.05, reasons[did].append(...)
RECURSIVE BumpIds(_, _)
BumpIds(ids, acc) ==
    IF ids = <<>> THEN acc
    ELSE LET did == Head(ids) IN
         BumpIds(Tail(ids),
                 [scores |-> [acc.scores EXCEPT ![did] = @ + ConsensusBonus],
                  reasons |-> [acc.reasons EXCEPT ![did] = Append(@, <<"consensus", 5>>)]])

\* lines 55-59: the consensus bump over the url groups of two or more
RECURSIVE ConsensusLoop(_, _)
ConsensusLoop(by_url, acc) ==
    IF by_url = <<>> THEN acc
    ELSE LET ids == Head(by_url).ids IN
         ConsensusLoop(Tail(by_url),
                       IF Len(ids) >= 2 THEN BumpIds(ids, acc) ELSE acc)

\* faulty variant: the last maximal element is taken
MaxByScoreLast(cands, scores) ==
    CHOOSE i \in 1..Len(cands) :
        /\ \A j \in 1..Len(cands) : scores[cands[j].doc_id] <= scores[cands[i].doc_id]
        /\ \A j \in (i+1)..Len(cands) : scores[cands[j].doc_id] < scores[cands[i].doc_id]
\* max(candidates, key=lambda c: scores[c.doc_id]): the first maximal element
MaxByScore(cands, scores) ==
    CHOOSE i \in 1..Len(cands) :
        /\ \A j \in 1..Len(cands) : scores[cands[j].doc_id] <= scores[cands[i].doc_id]
        /\ \A j \in 1..(i-1) : scores[cands[j].doc_id] < scores[cands[i].doc_id]

\* rank(candidates, query): [status, chosen, scores, reasons]. It raises
\* when scoring a candidate raises (line 44) and when candidates is empty
\* (max() of an empty sequence, line 60).
RankRaised == [status |-> "raised", chosen |-> 0, scores |-> EmptyDict,
               reasons |-> EmptyDict]

RankResult(candidates, fin) ==
    [status |-> "ok",
     chosen |-> MaxByScore(candidates, fin.scores),
     scores |-> fin.scores,
     reasons |-> fin.reasons]

rank(candidates, query) ==
    IF \E i \in 1..Len(candidates) : _authority_raises(candidates[i])
    THEN RankRaised
    ELSE IF candidates = <<>> THEN RankRaised
    ELSE RankResult(candidates,
                    ConsensusLoop(ByUrl(candidates, <<>>),
                                  ScoreLoop(candidates, query, EmptyDict, EmptyDict)))

-----------------------------------------------------------------------------
(* policy/guard.py *)

\* A text is a sequence of atoms, written next to each other without
\* anything in between:
\*   "AKIA"      an access key, AKIA and 16 characters of [0-9A-Z]
\*   "xoxb-"     the head of a workspace token
\*   "Bearer"    the word Bearer
\*   "password"  the word password, in any case
\*   "="         ":" or "="
\*   " "         one white-space character
\*   "."         a full stop
\*   "w"         a run of letters and digits that is none of the above
\*   "Q"         an occurrence of the query, two words and a space
\*   "3pm" "4pm" "3 PM"   an hour followed by pm
\*   Marker      the replacement text
Marker == "[REDACTED]"
TimeTokens == {"3pm", "3 PM", "4pm"}
Atoms ==
    {"AKIA", "xoxb-", "Bearer", "password", "=", " ", ".", "w", "Q", Marker}
    \cup TimeTokens

\* atoms with a white-space character inside: a run of non-space characters
\* ends in the middle of them and leaves the rest, a space and a word
SplitAtoms == {"Q", "3 PM"}
SplitRest == <<" ", "w">>

\* the atoms that lie wholly in a character class of _TOKEN_PATTERNS:
\* "2" is [0-9A-Za-z-], "3" is [A-Za-z0-9\._-], "S" is \S
InClass(cls, a) ==
    CASE cls = "2" -> a \in {"w", "AKIA", "Bearer", "password", "3pm", "4pm", "xoxb-"}
      [] cls = "3" -> a \in {"w", "AKIA", "Bearer", "password", "3pm", "4pm", "xoxb-", "."}
      [] OTHER -> a \notin ({" "} \cup SplitAtoms)

\* \s*: the number of white-space atoms from position i on
Spaces(text, i) ==
    CHOOSE k \in 0..Len(text) :
        /\ \A j \in i..(i + k - 1) : j <= Len(text) /\ text[j] = " "
        /\ (i + k > Len(text) \/ text[i + k] # " ")

\* [class]+ from position i on, greedy: n atoms are taken (0: no match),
\* the last of them in part when it is a split atom, and rest is what is
\* left of it
ClassRun(cls, text, i) ==
    LET k == CHOOSE k \in 0..Len(text) :
                 /\ \A j \in i..(i + k - 1) : j <= Len(text) /\ InClass(cls, text[j])
                 /\ (i + k > Len(text) \/ ~InClass(cls, text[i + k]))
    IN IF i + k <= Len(text) /\ text[i + k] \in SplitAtoms
       THEN [n |-> k + 1, rest |-> SplitRest]
       ELSE [n |-> k, rest |-> <<>>]

NoMatch == [n |-> 0, rest |-> <<>>]

\* a match that starts with `lead` atoms and ends with the run `run`
Matched(lead, run) ==
    IF run.n = 0 THEN NoMatch ELSE [n |-> lead + run.n, rest |-> run.rest]

\* _TOKEN_PATTERNS[pat - 1] at position i: the atoms the match takes
MatchAt(pat, text, i) ==
    CASE pat = 1 ->
           IF text[i] = "AKIA" THEN [n |-> 1, rest |-> <<>>] ELSE NoMatch
      [] pat = 2 ->
           IF text[i] = "xoxb-" THEN Matched(1, ClassRun("2", text, i + 1)) ELSE NoMatch
      [] pat = 3 ->
           IF text[i] = "Bearer" /\ Spaces(text, i + 1) >= 1
           THEN Matched(1 + Spaces(text, i + 1),
                        ClassRun("3", text, i + 1 + Spaces(text, i + 1)))
           ELSE NoMatch
      [] pat = 4 ->
           LET e == i + 1 + Spaces(text, i + 1) IN
           IF text[i] = "password" /\ e <= Len(text) /\ text[e] = "="
           THEN Matched(e - i + 1 + Spaces(text, e + 1),
                        ClassRun("S", text, e + 1 + Spaces(text, e + 1)))
           ELSE NoMatch

\* faulty variant: pat.sub("[REDACTED]", redacted, count=1), only the first
\* match is replaced
RECURSIVE SubFirst(_, _, _)
SubFirst(pat, text, i) ==
    IF i > Len(text) THEN <<>>
    ELSE IF MatchAt(pat, text, i).n > 0
         THEN <<Marker>> \o MatchAt(pat, text, i).rest
              \o SubSeq(text, i + MatchAt(pat, text, i).n, Len(text))
         ELSE <<text[i]>> \o SubFirst(pat, text, i + 1)
\* pat.sub("[REDACTED]", redacted): the matches from left to right, each
\* search starting where the previous match ended
RECURSIVE Sub(_, _, _)
Sub(pat, text, i) ==
    IF i > Len(text) THEN <<>>
    ELSE IF MatchAt(pat, text, i).n > 0
         THEN <<Marker>> \o MatchAt(pat, text, i).rest
              \o Sub(pat, text, i + MatchAt(pat, text, i).n)
         ELSE <<text[i]>> \o Sub(pat, text, i + 1)

\* redact(text): the four patterns in their order, each on the text the
\* previous one left
redact(text) == Sub(4, Sub(3, Sub(2, Sub(1, text, 1), 1), 1), 1)

\* \b next to an atom: its last, its first character is a word character
EndsWord(a) == a \notin {" ", "=", ".", "xoxb-", Marker, "..."}
StartsWord(a) == a \notin {" ", "=", ".", Marker, "..."}

\* m.group(0).lower()
TimeLower(tok) == IF tok = "3 PM" THEN "3 pm" ELSE tok

\* _extract_time_token(text): the first match of _TIME_RE, lower-cased, or ""
_extract_time_token(text) ==
    LET hits == {i \in 1..Len(text) :
                    /\ text[i] \in TimeTokens
                    /\ (i = 1 \/ ~EndsWord(text[i - 1]))
                    /\ (i = Len(text) \/ ~StartsWord(text[i + 1]))} IN
    IF hits = {} THEN ""
    ELSE TimeLower(text[CHOOSE i \in hits : \A j \in hits : i <= j])

\* faulty variant: the snippets are left as they are
RedactNone(ranked) == ranked
\* faulty variant: the list is rebuilt from sanitized copies that lose the
\* signals
RedactAllRebuilt(ranked) ==
    [i \in 1..Len(ranked) |->
        [ranked[i] EXCEPT !.snippet = redact(@), !.signals = NoSignals]]
\* lines 39-45: redact every snippet of the ranked list in place
RedactAll(ranked) ==
    [i \in 1..Len(ranked) |-> [ranked[i] EXCEPT !.snippet = redact(@)]]

RECURSIVE Redactions(_)
Redactions(ranked) ==
    IF ranked = <<>> THEN <<>>
    ELSE LET c == Head(ranked) IN
         (IF redact(c.snippet) # c.snippet THEN <<c.doc_id>> ELSE <<>>)
         \o Redactions(Tail(ranked))

\* lines 53-61: the first other candidate with a different time token;
\* 0 when there is none
ContradictorOfTimed(chosen, chosen_time, ranked) ==
    LET hits == {i \in 1..Len(ranked) :
                    /\ ranked[i].doc_id # chosen.doc_id
                    /\ _extract_time_token(ranked[i].snippet) # ""
                    /\ _extract_time_token(ranked[i].snippet) # chosen_time}
    IN IF hits = {} THEN 0 ELSE CHOOSE i \in hits : \A j \in hits : i <= j

\* lines 62-73: the first candidate whose token was seen before; it is the
\* contradictor unless it has the chosen doc_id, and then seen[t] is
TimeTokenAt(ranked, i) == _extract_time_token(ranked[i].snippet)

\* the positions whose time token was seen at an earlier position
Repeats(ranked) ==
    {i \in 1..Len(ranked) :
        /\ TimeTokenAt(ranked, i) # ""
        /\ \E j \in 1..(i-1) : TimeTokenAt(ranked, j) = TimeTokenAt(ranked, i)}

\* seen[t]: the first position holding the token of position i
SeenAt(ranked, i) ==
    CHOOSE j \in 1..i : /\ TimeTokenAt(ranked, j) = TimeTokenAt(ranked, i)
                        /\ \A k \in 1..(j-1) : TimeTokenAt(ranked, k) # TimeTokenAt(ranked, i)

SetMin(S) == CHOOSE x \in S : \A y \in S : x <= y

UntimedPick(chosen, ranked, i) ==
    IF ranked[i].doc_id # chosen.doc_id THEN i ELSE SeenAt(ranked, i)

ContradictorOfUntimed(chosen, ranked) ==
    IF Repeats(ranked) = {} THEN 0
    ELSE UntimedPick(chosen, ranked, SetMin(Repeats(ranked)))

\* faulty variant: the banner names the head of the list, not the chosen
\* candidate
GuardResultBannerHead(ch, ranked, redactions, k) ==
    [status |-> "ok",
     chosen |-> ch,
     ranked |-> ranked,
     redactions |-> redactions,
     conflict |-> k # 0,
     contradictor |-> k,
     banner |-> IF k # 0 THEN <<ranked[1].source, ranked[k].source>> ELSE <<>>]
\* faulty variant: the banner is built without the test of line 75, and
\* contradictor.source raises when there is no contradictor
GuardResultUnguarded(ch, ranked, redactions, k) ==
    [status |-> IF k # 0 THEN "ok" ELSE "raised",
     chosen |-> ch,
     ranked |-> ranked,
     redactions |-> redactions,
     conflict |-> k # 0,
     contradictor |-> k,
     banner |-> IF k # 0 THEN <<ch.source, ranked[k].source>> ELSE <<>>]
\* guard(chosen, ranked_by_score, scores_by_id). chosen is an object of the
\* caller: ci is its position in ranked_by_score, 0 when the list does not
\* hold that object (its snippet is then not redacted).
\* banner: <<>> is "", otherwise <<chosen.source, contradictor.source>>.
\* lines 75-79: the result, for the contradictor at position k (0: none)
GuardResult(ch, ranked, redactions, k) ==
    [status |-> "ok",
     chosen |-> ch,
     ranked |-> ranked,
     redactions |-> redactions,
     conflict |-> k # 0,
     contradictor |-> k,
     banner |-> IF k # 0 THEN <<ch.source, ranked[k].source>> ELSE <<>>]

\* lines 47-73: the contradiction partner of the chosen candidate
Contradictor(ch, chosen_time, ranked) ==
    IF chosen_time # ""
    THEN ContradictorOfTimed(ch, chosen_time, ranked)
    ELSE ContradictorOfUntimed(ch, ranked)

GuardRedacted(ch, ranked, redactions) ==
    GuardResult(ch, ranked, redactions,
                Contradictor(ch, _extract_time_token(ch.snippet), ranked))

GuardOn(chosen, ci, ranked, redactions) ==
    GuardRedacted(IF ci = 0 THEN chosen ELSE ranked[ci], ranked, redactions)

\* the value None
None == [none |-> TRUE]

\* guard raises when chosen is None: chosen.snippet, line 48
GuardRaised ==
    [status |-> "raised", chosen |-> None, ranked |-> <<>>, redactions |-> <<>>,
     conflict |-> FALSE, contradictor |-> 0, banner |-> <<>>]

\* faulty variant: the contradiction partner is looked for before the
\* snippets are redacted
guardDetectsFirst(chosen, ci, ranked_by_score) ==
    IF chosen = None THEN GuardRaised
    ELSE [GuardOn(chosen, ci, ranked_by_score, Redactions(ranked_by_score))
             EXCEPT !.ranked = RedactAll(ranked_by_score),
                    !.chosen = IF ci = 0 THEN chosen
                               ELSE RedactAll(ranked_by_score)[ci]]
\* lines 38-79: the redaction loop, then the search on the redacted snippets
guard(chosen, ci, ranked_by_score) ==
    IF chosen = None THEN GuardRaised
    ELSE GuardOn(chosen, ci, RedactAll(ranked_by_score), Redactions(ranked_by_score))

-----------------------------------------------------------------------------
(* connectorhub/__init__.py: values a provider's search_corpus produces *)

\* lines 63-69: the fixed registration order
Providers == <<"slack", "drive", "github">>
ProviderSet == {Providers[i] : i \in 1..Len(Providers)}
ProviderIndex(p) == CHOOSE i \in 1..Len(Providers) : Providers[i] = p

\* The candidate a provider reports at position i of its list, shaped as the
\* adapters build them (slack.py 165-174, drive.py 77-86, github.py 100-112):
\* doc ids are distinct across providers, the first slack and the first
\* drive candidate point at the same url.
Candidate(p, i) ==
    LET n == 10 * ProviderIndex(p) + i IN
    CASE p = "slack" ->
           NormalizedCandidate("slack", n, IF i = 1 THEN 1 ELSE n, FALSE,
               IF i = 1 THEN <<"Q", " ", "3pm">> ELSE <<"w", " ", "xoxb-", "w">>, 10,
               [NoSignals EXCEPT !.pinned = TRUE, !.accepted = (i = 1)])
      [] p = "drive" ->
           NormalizedCandidate("drive", n, IF i = 1 THEN 1 ELSE n, i = 1,
               IF i = 1 THEN <<"w", " ", "4pm">> ELSE <<"AKIA", " ", "w">>, i,
               [NoSignals EXCEPT !.folder = "Runbooks"])
      [] p = "github" ->
           NormalizedCandidate("github", n, n, FALSE,
               IF i = 1 THEN <<"w">> ELSE <<"Q", " ", "3 PM">>, 2,
               [NoSignals EXCEPT !.path_hint = IF i = 1 THEN "/docs" ELSE "",
                                 !.approved_pr = [k |-> "int", v |-> 0]])

\* An item of a raw list.
\*   kind  "nc": a NormalizedCandidate object; "dict": a dict; "other": else
\*   ids   the dict has the keys source, url and doc_id
\*   valid NormalizedCandidate(**item) succeeds
\*   rl    item.get("rate_limited") is truthy
\*   cand  the candidate the object is, or the dict validates to
Item(kind, ids, valid, rl, cand) ==
    [kind |-> kind, ids |-> ids, valid |-> valid, rl |-> rl, cand |-> cand]

ItemKinds == {"NC", "DictOk", "DictOkRL", "DictBad", "DictPartial", "Sentinel", "Other"}
\* the kinds used when several providers are registered
CommonItemKinds == {"NC", "Sentinel"}

MkItem(p, i, k) ==
    CASE k = "NC" -> Item("nc", FALSE, FALSE, FALSE, Candidate(p, i))
      [] k = "DictOk" -> Item("dict", TRUE, TRUE, FALSE, Candidate(p, i))
      [] k = "DictOkRL" -> Item("dict", TRUE, TRUE, TRUE, Candidate(p, i))
      [] k = "DictBad" -> Item("dict", TRUE, FALSE, FALSE, Candidate(p, i))
      [] k = "DictPartial" -> Item("dict", FALSE, FALSE, FALSE, Candidate(p, i))
      [] k = "Sentinel" -> Item("dict", FALSE, FALSE, TRUE, Candidate(p, i))
      [] k = "Other" -> Item("other", FALSE, FALSE, FALSE, Candidate(p, i))

\* A value search_corpus returns. type "list": items is the list; "none":
\* None; "dict", "str": a non-empty dict or string, items is what iterating
\* it yields (keys, characters); "num": the number val, not iterable.
Payload(type, items, val) == [type |-> type, items |-> items, val |-> val]
ListOf(items) == Payload("list", items, 0)
EmptyList == ListOf(<<>>)

NonListPayloads(p) ==
    { Payload("none", <<>>, 0),
      Payload("dict", <<MkItem(p, 1, "Other")>>, 0),
      Payload("str", <<MkItem(p, 1, "Other")>>, 0),
      Payload("num", <<>>, 0),
      Payload("num", <<>>, 5) }

ListPayloads(p, kinds, maxlen) ==
    UNION { { ListOf([i \in 1..n |-> MkItem(p, i, ks[i])]) : ks \in [1..n -> kinds] } :
            n \in 0..maxlen }

\* the non-list values used when several providers are registered
CommonNonListPayloads == {Payload("none", <<>>, 0), Payload("num", <<>>, 5)}

\* the values provider p may return, given how many providers are registered
Payloads(p, nreg) ==
    IF nreg = 1
    THEN NonListPayloads(p) \cup ListPayloads(p, ItemKinds, MaxItemsSolo)
    ELSE CommonNonListPayloads \cup ListPayloads(p, CommonItemKinds, MaxItems)

\* exception classes a provider call raises; "TimeoutError" is
\* asyncio.TimeoutError raised by the adapter itself
ErrorClasses == {"TimeoutError", "HTTPStatusError", "ValidationError"}

-----------------------------------------------------------------------------
(* connectorhub/__init__.py: gather_candidates *)

\* bool(res)
Truthy(res) ==
    CASE res.type = "none" -> FALSE
      [] res.type = "num" -> res.val # 0
      [] OTHER -> Len(res.items) > 0

\* What a provider's search_corpus call does: it returns res, raises err, or
\* does not finish within timeout_each ("hang": never; "slow": too late).
Behaviour(kind, res, err) == [kind |-> kind, res |-> res, err |-> err]
NoBehaviour == Behaviour("none", EmptyList, "")
Returns(res) == Behaviour("return", res, "")
Raises(err) == Behaviour("raise", EmptyList, err)
Hangs == Behaviour("hang", EmptyList, "")
Slow == Behaviour("slow", EmptyList, "")

\* _call_with_timeout: asyncio.wait_for hands back the value, re-raises the
\* call's exception, or cancels the call and raises asyncio.TimeoutError
_call_with_timeout(b) ==
    CASE b.kind = "return" -> [exc |-> "", val |-> b.res, ms |-> 0]
      [] b.kind = "raise" -> [exc |-> b.err, val |-> EmptyList, ms |-> 0]
      [] OTHER -> [exc |-> "TimeoutError", val |-> EmptyList, ms |-> TimeoutMs]

Info(ms, timeout, error, rate_limited) ==
    [ms |-> ms, timeout |-> timeout, error |-> error, rate_limited |-> rate_limited]

\* faulty variant: the sentinel is looked for among all items
IsRateLimitSentinelAnywhere(res) ==
    /\ res.type = "list"
    /\ \E i \in 1..Len(res.items) : res.items[i].kind = "dict" /\ res.items[i].rl
\* line 83: the rate-limit sentinel test
IsRateLimitSentinel(res) ==
    /\ res.type = "list"
    /\ Len(res.items) = 1
    /\ res.items[1].kind = "dict"
    /\ res.items[1].rl

\* faulty variant: the rate-limit flag is set and the list is kept
runnerKeepsFlaggedList(name, b) ==
    LET r == _call_with_timeout(b) IN
    IF r.exc = ""
    THEN [name |-> name,
          res |-> IF Truthy(r.val) THEN r.val ELSE EmptyList,
          info |-> Info(r.ms, 0, "", IF IsRateLimitSentinel(r.val) THEN 1 ELSE 0)]
    ELSE IF r.exc = "TimeoutError"
    THEN [name |-> name, res |-> EmptyList, info |-> Info(r.ms, 1, "", 0)]
    ELSE [name |-> name, res |-> EmptyList, info |-> Info(r.ms, 0, r.exc, 0)]
\* faulty variant: no except clause for asyncio.TimeoutError
runnerNoTimeoutClause(name, b) ==
    LET r == _call_with_timeout(b) IN
    IF r.exc = ""
    THEN LET rl == IsRateLimitSentinel(r.val)
             res == IF rl THEN EmptyList ELSE r.val
         IN [name |-> name,
             res |-> IF Truthy(res) THEN res ELSE EmptyList,
             info |-> Info(r.ms, 0, "", IF rl THEN 1 ELSE 0)]
    ELSE [name |-> name, res |-> EmptyList, info |-> Info(r.ms, 0, r.exc, 0)]
\* lines 75-95: runner() of one provider: (_name, res, info)
runner(name, b) ==
    LET r == _call_with_timeout(b) IN
    IF r.exc = ""
    THEN LET rl == IsRateLimitSentinel(r.val)
             res == IF rl THEN EmptyList ELSE r.val
         IN [name |-> name,
             res |-> IF Truthy(res) THEN res ELSE EmptyList,
             info |-> Info(r.ms, 0, "", IF rl THEN 1 ELSE 0)]
    ELSE IF r.exc = "TimeoutError"
    THEN [name |-> name, res |-> EmptyList, info |-> Info(r.ms, 1, "", 0)]
    ELSE [name |-> name, res |-> EmptyList, info |-> Info(r.ms, 0, r.exc, 0)]

\* faulty variant: every dict is taken as a candidate
CoerceItemLoose(item) ==
    IF item.kind = "nc" \/ item.kind = "dict" THEN <<item.cand>> ELSE <<>>
\* lines 35-43: what one item contributes
CoerceItem(item) ==
    IF item.kind = "nc" THEN <<item.cand>>
    ELSE IF item.kind = "dict" /\ item.ids
    THEN (IF item.valid THEN <<item.cand>> ELSE <<>>)
    ELSE <<>>

RECURSIVE CoerceLoop(_)
CoerceLoop(items) ==
    IF items = <<>> THEN <<>>
    ELSE CoerceItem(Head(items)) \o CoerceLoop(Tail(items))

\* _coerce_candidates(raw): "for item in raw or []" raises TypeError when raw
\* is truthy and not iterable
_coerce_candidates(raw) ==
    IF ~Truthy(raw) THEN [status |-> "ok", coerced |-> <<>>]
    ELSE IF raw.type = "num" THEN [status |-> "raised", coerced |-> <<>>]
    ELSE [status |-> "ok", coerced |-> CoerceLoop(raw.items)]

\* lines 101-106: the merge loop over the joined results
\* line 104: coerced = _coerce_candidates(res)
Coerced(r) == _coerce_candidates(r.res)

\* line 105: timings[name] = info | {"count": len(coerced)}
Entry(r) ==
    [ms |-> r.info.ms, timeout |-> r.info.timeout, error |-> r.info.error,
     rate_limited |-> r.info.rate_limited, count |-> Len(Coerced(r).coerced)]

\* line 106: merged.extend(coerced), over the first n results
RECURSIVE Extend(_, _)
Extend(results, n) ==
    IF n = 0 THEN <<>>
    ELSE Extend(results, n - 1) \o Coerced(results[n]).coerced

\* the position of the result that wrote timings[name] last
LastOf(results, name) ==
    CHOOSE i \in 1..Len(results) :
        /\ results[i].name = name
        /\ \A j \in 1..Len(results) : results[j].name = name => j <= i

\* an exception of _coerce_candidates leaves the loop and gather_candidates
MergeLoop(results) ==
    IF \E i \in 1..Len(results) : Coerced(results[i]).status = "raised"
    THEN [status |-> "raised", merged |-> <<>>, timings |-> EmptyDict]
    ELSE [status |-> "returned",
          merged |-> Extend(results, Len(results)),
          timings |-> [name \in {results[i].name : i \in 1..Len(results)} |->
                          Entry(results[LastOf(results, name)])]]

\* lines 63-69: the providers list, in registration order
ProvidersOf(reg) == SelectSeq(Providers, LAMBDA p : p \in reg)

\* faulty variant: the results come back in the order the runners completed
GatherResultsAsCompleted(reg, results) ==
    [i \in 1..Len(finished) |-> results[finished[i]]]
\* line 99: asyncio.gather hands back the runners' results in task order
GatherResults(reg, results) ==
    [i \in 1..Len(ProvidersOf(reg)) |-> results[ProvidersOf(reg)[i]]]

\* faulty variant: the merged list is cut to limit
GatherTruncating(reg, results) ==
    CHOOSE g \in {[MergeLoop(joined) EXCEPT !.merged = SubSeq(@, 1, Min(Len(@), Limit))] :
                      joined \in {GatherResults(reg, results)}} : TRUE
\* lines 99-116: gather_candidates from the join on, over the runners'
\* results; joined is the list asyncio.gather hands back
gather_candidates(reg, results) ==
    CHOOSE g \in {MergeLoop(joined) : joined \in {GatherResults(reg, results)}} : TRUE

-----------------------------------------------------------------------------
(* main.py: ask_endpoint *)

\* the trace id the middleware binds to the request
TraceId == "t1"

\* longest text _summarize_answer keeps whole, in atoms (240 characters)
SummaryLen == 2

\* the mark "…" the soft trim appends, an atom that is neither white space
\* nor part of a word
Ellipsis == "..."

\* snippet.strip(): the text without its leading and trailing white space
StripText(text) ==
    LET solid == {i \in 1..Len(text) : text[i] # " "} IN
    IF solid = {} THEN <<>>
    ELSE SubSeq(text, SetMin(solid), CHOOSE i \in solid : \A j \in solid : j <= i)

\* re.sub(r"\s+\S*$", "", text[:240]): the cut text loses its last run of
\* white space and what follows it; a split atom loses its second word
SoftTrim(cut) ==
    LET ws == {i \in 1..Len(cut) : cut[i] = " " \/ cut[i] \in SplitAtoms} IN
    IF ws = {} THEN cut
    ELSE LET p == CHOOSE i \in ws : \A j \in ws : j <= i IN
         IF cut[p] \in SplitAtoms THEN SubSeq(cut, 1, p - 1) \o <<"w">>
         ELSE SubSeq(cut, 1,
                     (CHOOSE q \in 1..p :
                         /\ \A j \in q..p : cut[j] = " "
                         /\ (q = 1 \/ cut[q - 1] # " ")) - 1)

\* faulty variant: the text is cut without the soft trim
SummarizeHardCut(snippet) ==
    IF Len(StripText(snippet)) <= SummaryLen THEN StripText(snippet)
    ELSE SubSeq(StripText(snippet), 1, SummaryLen) \o <<Ellipsis>>
\* _summarize_answer(snippet): the text is one line; it is kept whole up to
\* SummaryLen atoms and soft-trimmed beyond
_summarize_answer(snippet) ==
    IF Len(StripText(snippet)) <= SummaryLen THEN StripText(snippet)
    ELSE SoftTrim(SubSeq(StripText(snippet), 1, SummaryLen)) \o <<Ellipsis>>

\* c.source.capitalize()
Capitalize(src) ==
    CASE src = "slack" -> "Slack" [] src = "drive" -> "Drive"
      [] src = "github" -> "Github" [] OTHER -> src

\* line 182: sorted(candidates, key=scores[c.doc_id], reverse=True), as the
\* positions of candidates in their new order; sorted() is stable
RECURSIVE SortDescFrom(_, _, _, _)
SortDescFrom(cands, scores, i, acc) ==
    IF i > Len(cands) THEN acc
    ELSE LET key(j) == scores[cands[j].doc_id]
             k == Cardinality({x \in 1..Len(acc) : key(acc[x]) >= key(i)})
         IN SortDescFrom(cands, scores, i + 1,
                         SubSeq(acc, 1, k) \o <<i>> \o SubSeq(acc, k + 1, Len(acc)))

SortDesc(cands, scores) == SortDescFrom(cands, scores, 1, <<>>)

\* lines 185-193: citations of the first three distinct urls
RECURSIVE Citations(_, _, _)
Citations(sorted, seen_urls, citations) ==
    IF sorted = <<>> \/ Len(citations) >= 3 THEN citations
    ELSE LET c == Head(sorted) IN
         IF c.url \in seen_urls THEN Citations(Tail(sorted), seen_urls, citations)
         ELSE Citations(Tail(sorted), seen_urls \cup {c.url},
                        Append(citations, [label |-> Capitalize(c.source), url |-> c.url]))

\* provider_meta.get(p, {}).get(key, default)
MetaGet(provider_meta, p, key, default) ==
    IF p \in DOMAIN provider_meta THEN provider_meta[p][key] ELSE default

\* the timings_ms and provider_flags entries of a trace (lines 147-170, 225-248)
TraceTimings(provider_meta, fusion, policy) ==
    [slack |-> MetaGet(provider_meta, "slack", "ms", 0),
     drive |-> MetaGet(provider_meta, "drive", "ms", 0),
     github |-> MetaGet(provider_meta, "github", "ms", 0),
     fusion |-> fusion, policy |-> policy]

TraceFlags(provider_meta) ==
    [p \in ProviderSet |->
        [timeout |-> MetaGet(provider_meta, p, "timeout", 0),
         error |-> MetaGet(provider_meta, p, "error", "None"),
         rate_limited |-> MetaGet(provider_meta, p, "rate_limited", 0)]]

\* What ask_endpoint leaves behind.
\*   status       the HTTP status of the response
\*   rank_calls   how often fusion_rank was called; guard_calls likewise
\*   store        the entries written to TRACE_STORE
Outcome(status, rank_calls, guard_calls, body, store) ==
    [status |-> status, rank_calls |-> rank_calls, guard_calls |-> guard_calls,
     body |-> body, store |-> store]

NoBody == [answer |-> <<>>, citations |-> <<>>, banner |-> <<>>,
           chosen |-> 0, sorted |-> <<>>, scores |-> EmptyDict, detail |-> ""]

\* lines 143-176: the empty-result branch
NoProvidersTrace(query, provider_meta) ==
    [trace_id |-> TraceId, query |-> query,
     timings_ms |-> TraceTimings(provider_meta, 0, 0),
     provider_flags |-> TraceFlags(provider_meta),
     candidates |-> <<>>,
     chosen |-> [url |-> "", score |-> 0, explanations |-> <<"no_providers">>],
     policy |-> [redactions |-> <<>>, conflict |-> FALSE]]

\* lines 200-264: confidence, answer text, response and trace entry
Respond(query, provider_meta, r, g, ci, citations, confidence) ==
    Outcome(200, 1, 1,
            [answer |-> _summarize_answer(g.chosen.snippet),
             citations |-> citations, banner |-> g.banner,
             chosen |-> ci, sorted |-> g.ranked, scores |-> r.scores, detail |-> ""],
            DictSet(EmptyDict, TraceId,
                [trace_id |-> TraceId, query |-> query,
                 timings_ms |-> TraceTimings(provider_meta, 2, 1),
                 provider_flags |-> TraceFlags(provider_meta),
                 candidates |-> [i \in 1..Len(g.ranked) |->
                                    [source |-> g.ranked[i].source,
                                     url |-> g.ranked[i].url,
                                     score |-> r.scores[g.ranked[i].doc_id],
                                     reasons |-> r.reasons[g.ranked[i].doc_id]]],
                 chosen |-> [url |-> g.chosen.url, score |-> confidence,
                             explanations |-> r.reasons[g.chosen.doc_id]],
                 policy |-> [redactions |-> g.redactions, conflict |-> g.conflict]]))

\* lines 195-204: policy_guard, then the confidence from the chosen score
Guarded(query, provider_meta, r, g, ci, citations) ==
    Respond(query, provider_meta, r, g, ci, citations,
            Max(0, Min(10000000, r.scores[g.chosen.doc_id])))

\* lines 184-198: citations and guard over the sorted list; ci is the
\* position of the chosen object in it
Sorted(query, candidates, provider_meta, r, sorted_by_score, ci) ==
    Guarded(query, provider_meta, r,
            guard(candidates[r.chosen], ci, sorted_by_score),
            ci, Citations(sorted_by_score, {}, <<>>))

PositionOf(order, x) == CHOOSE i \in 1..Len(order) : order[i] = x

\* line 182: the sort
Ranked(query, candidates, provider_meta, r, order) ==
    Sorted(query, candidates, provider_meta, r,
           [i \in 1..Len(order) |-> candidates[order[i]]],
           PositionOf(order, r.chosen))

AfterRank(query, candidates, provider_meta, r) ==
    IF r.status = "raised" THEN Outcome(500, 1, 0, NoBody, EmptyDict)
    ELSE Ranked(query, candidates, provider_meta, r, SortDesc(candidates, r.scores))

\* lines 178-264: rank, sort, cite, guard, answer, trace
AnswerOutcome(query, candidates, provider_meta) ==
    AfterRank(query, candidates, provider_meta, rank(candidates, query))

\* faulty variant: no test for an empty result
AfterGatherNoShortCircuit(query, g) ==
    IF g.status = "raised" THEN Outcome(500, 0, 0, NoBody, EmptyDict)
    ELSE AnswerOutcome(query, g.merged, g.timings)
\* lines 138-291, from the return of gather_candidates on; g is what
\* gather_candidates did: an exception of it leaves the handler (500)
AfterGather(query, g) ==
    IF g.status = "raised" THEN Outcome(500, 0, 0, NoBody, EmptyDict)
    ELSE IF g.merged = <<>>
    THEN Outcome(503, 0, 0, [NoBody EXCEPT !.detail = "No providers available"],
                 DictSet(EmptyDict, TraceId, NoProvidersTrace(query, g.timings)))
    ELSE AnswerOutcome(query, g.merged, g.timings)

-----------------------------------------------------------------------------
(* The request: ask_endpoint over gather_candidates and its runner tasks *)

\* payload.query values: a question, and one that is blank after strip()
Queries == {"deploy window", "   "}
Strip(q) == IF q = "   " THEN "" ELSE q

NoResult == [name |-> "", res |-> EmptyList, info |-> Info(0, 0, "", 0)]

\* a runner task: st is "idle" (not created), "pending" (awaiting the
\* provider), "hung" (awaiting a provider that will never return) or "done"
Task(st, behav, result) == [st |-> st, behav |-> behav, result |-> result]

NoOutcome == Outcome(0, 0, 0, NoBody, EmptyDict)
NoRank == [status |-> "none", chosen |-> 0, scores |-> EmptyDict, reasons |-> EmptyDict]
NoRankInput == [cands |-> <<>>, query |-> ""]
NoGuard == [status |-> "none"]
NoGuardInput == [chosen |-> None, ci |-> 0, ranked |-> <<>>]

Init ==
    /\ registered \in SUBSET ProviderSet
    /\ call = [p \in ProviderSet |-> Task("idle", NoBehaviour, NoResult)]
    /\ gc = "idle"
    /\ merged = <<>>
    /\ timings = EmptyDict
    /\ \E q \in Queries : ask = [pc |-> "start", query |-> q, out |-> NoOutcome]
    /\ TRACE_STORE = EmptyDict
    /\ rk_in = NoRankInput
    /\ rk_out = NoRank
    /\ gd_in = NoGuardInput
    /\ gd_out = NoGuard
    /\ finished = <<>>

\* lines 125-127: a query that is empty after strip() is refused with 400
AskRejects ==
    /\ ask.pc = "start"
    /\ Strip(ask.query) = ""
    /\ ask' = [ask EXCEPT !.pc = "done", !.out = Outcome(400, 0, 0, NoBody, EmptyDict)]
    /\ UNCHANGED <<registered, call, gc, merged, timings, TRACE_STORE, rk_in, rk_out, guardVars, finished>>

\* lines 138-140 and connectorhub 63-99: gather_candidates creates one runner
\* per registered provider and awaits them all
AskStart ==
    /\ ask.pc = "start"
    /\ Strip(ask.query) # ""
    /\ ask' = [ask EXCEPT !.pc = "gathering", !.query = Strip(@)]
    /\ gc' = "waiting"
    /\ call' = [p \in ProviderSet |->
                  IF p \in registered THEN Task("pending", NoBehaviour, NoResult)
                  ELSE call[p]]
    /\ UNCHANGED <<registered, merged, timings, TRACE_STORE, rk_in, rk_out, guardVars, finished>>

Finish(p, b) ==
    call' = [call EXCEPT ![p] = Task("done", b, runner(p, b))]

\* the provider's search_corpus returns a value in time
ProviderReturns(p) ==
    /\ call[p].st = "pending"
    /\ \E res \in Payloads(p, Cardinality(registered)) : Finish(p, Returns(res))
    /\ UNCHANGED <<registered, gc, merged, timings, ask, TRACE_STORE, rk_in, rk_out, guardVars, finished>>

\* the provider's search_corpus raises
ProviderRaises(p) ==
    /\ call[p].st = "pending"
    /\ \E e \in ErrorClasses : Finish(p, Raises(e))
    /\ UNCHANGED <<registered, gc, merged, timings, ask, TRACE_STORE, rk_in, rk_out, guardVars, finished>>

\* the provider's search_corpus blocks on an await that never completes
ProviderHangs(p) ==
    /\ call[p].st = "pending"
    /\ call' = [call EXCEPT ![p] = Task("hung", Hangs, NoResult)]
    /\ UNCHANGED <<registered, gc, merged, timings, ask, TRACE_STORE, rk_in, rk_out, guardVars, finished>>

\* faulty variant: one timeout around the whole gather cancels every unfinished call
TimeoutCancelsAll(p) ==
    /\ call[p].st \in {"pending", "hung"}
    /\ call' = [q \in ProviderSet |->
                  IF call[q].st = "hung" THEN Task("done", Hangs, runner(q, Hangs))
                  ELSE IF call[q].st = "pending" THEN Task("done", Slow, runner(q, Slow))
                  ELSE call[q]]
    /\ UNCHANGED <<registered, gc, merged, timings, ask, TRACE_STORE, rk_in, rk_out, guardVars, finished>>
\* asyncio.wait_for: timeout_each elapses before the call finished; only this
\* provider's call is cancelled
TimeoutFires(p) ==
    /\ call[p].st \in {"pending", "hung"}
    /\ Finish(p, IF call[p].st = "hung" THEN Hangs ELSE Slow)
    /\ UNCHANGED <<registered, gc, merged, timings, ask, TRACE_STORE, rk_in, rk_out, guardVars, finished>>

\* faulty variant: the join completes with the first runner that is done
JoinReadyAny(reg, c) == reg = {} \/ \E p \in reg : c[p].st = "done"
\* faulty variant: the join needs a runner that is done, also when there is none
JoinReadySome(reg, c) == \E p \in reg : c[p].st = "done"
\* line 99: asyncio.gather completes when every runner has
JoinReady(reg, c) == \A p \in reg : c[p].st = "done"

\* connectorhub 99-116 and main 143-291: the join, the merge and the rest of
\* the handler up to its response
\* TRACE_STORE[trace_id] = ... for every entry the handler wrote
StoreUpdate(store, written) ==
    [t \in (DOMAIN store) \cup (DOMAIN written) |->
        IF t \in DOMAIN written THEN written[t] ELSE store[t]]

Handled(g, o) ==
    /\ gc' = g.status
    /\ merged' = g.merged
    /\ timings' = g.timings
    /\ ask' = [ask EXCEPT !.pc = "done", !.out = o]
    /\ TRACE_STORE' = StoreUpdate(TRACE_STORE, o.store)

Joined(g) == Handled(g, AfterGather(ask.query, g))

Join ==
    /\ gc = "waiting"
    /\ JoinReady(registered, call)
    /\ Joined(gather_candidates(registered, [p \in ProviderSet |-> call[p].result]))
    /\ UNCHANGED <<registered, call, rk_in, rk_out, guardVars, finished>>

Next ==
    \/ AskRejects
    \/ AskStart
    \/ \E p \in ProviderSet : ProviderReturns(p)
    \/ \E p \in ProviderSet : ProviderRaises(p)
    \/ \E p \in ProviderSet : ProviderHangs(p)
    \/ \E p \in ProviderSet : TimeoutFires(p)
    \/ Join

Spec == Init /\ [][Next]_vars

TypeOK ==
    /\ registered \subseteq ProviderSet
    /\ gc \in {"idle", "waiting", "returned", "raised"}
    /\ ask.pc \in {"start", "gathering", "done"}
    /\ \A p \in ProviderSet : call[p].st \in {"idle", "pending", "hung", "done"}

-----------------------------------------------------------------------------
(* gather_candidates awaited on its own, outside ask_endpoint *)

InitHub ==
    /\ registered \in SUBSET ProviderSet
    /\ call = [p \in ProviderSet |-> Task("idle", NoBehaviour, NoResult)]
    /\ gc = "idle"
    /\ merged = <<>>
    /\ timings = EmptyDict
    /\ ask = [pc |-> "done", query |-> "", out |-> NoOutcome]
    /\ TRACE_STORE = EmptyDict
    /\ rk_in = NoRankInput
    /\ rk_out = NoRank
    /\ gd_in = NoGuardInput
    /\ gd_out = NoGuard
    /\ finished = <<>>

\* connectorhub 63-99: one runner task per registered provider
GatherStart ==
    /\ gc = "idle"
    /\ ask.pc = "done"
    /\ gc' = "waiting"
    /\ call' = [p \in ProviderSet |->
                  IF p \in registered THEN Task("pending", NoBehaviour, NoResult)
                  ELSE call[p]]
    /\ UNCHANGED <<registered, merged, timings, ask, TRACE_STORE, rk_in, rk_out, guardVars, finished>>

Returned(g) ==
    /\ gc' = g.status
    /\ merged' = g.merged
    /\ timings' = g.timings

\* connectorhub 99-116: the join and the merge, up to the return
GatherJoin ==
    /\ gc = "waiting"
    /\ ask.pc = "done"
    /\ JoinReady(registered, call)
    /\ \E g \in {gather_candidates(registered, [p \in ProviderSet |-> call[p].result])} :
          Returned(g)
    /\ UNCHANGED <<registered, call, ask, TRACE_STORE, rk_in, rk_out, guardVars, finished>>

NextHub ==
    \/ GatherStart
    \/ \E p \in ProviderSet : ProviderReturns(p)
    \/ \E p \in ProviderSet : ProviderRaises(p)
    \/ \E p \in ProviderSet : ProviderHangs(p)
    \/ \E p \in ProviderSet : TimeoutFires(p)
    \/ GatherJoin

SpecHub == InitHub /\ [][NextHub]_vars

\* The event loop fires every due timer and resumes gather_candidates once
\* every runner task is done.
FairSpec ==
    /\ SpecHub
    /\ \A p \in ProviderSet : WF_vars(TimeoutFires(p))
    /\ WF_vars(GatherJoin)

-----------------------------------------------------------------------------
(* rank called on its own: every short list over a pool of candidates *)

\* Candidates of every source, with doc ids and urls shared across sources
\* and ages of 0 and 7 days. (source, doc_id) identifies a candidate.
RankPool ==
    { NormalizedCandidate(src, did, u, FALSE, <<"w">>, age, NoSignals) :
        src \in Sources, did \in 1..2, u \in 1..2, age \in {0, 7} }

\* doc_id is unique within a source
UniqueWithinSource(cands) ==
    \A i, j \in 1..Len(cands) :
        (cands[i].source = cands[j].source /\ cands[i].doc_id = cands[j].doc_id)
            => i = j

RankInputs ==
    { cs \in SeqsOf(RankPool, 0, MaxCands) : UniqueWithinSource(cs) }

\* the values s.get("approved_pr", 0) can have on a github candidate: the key
\* is absent, a count, None, or a string that is not a number
AprKinds ==
    {[k |-> "missing", v |-> 0], [k |-> "int", v |-> 0], [k |-> "int", v |-> 3],
     [k |-> "null", v |-> 0], [k |-> "text", v |-> 0]}

GithubVariants ==
    { NormalizedCandidate("github", 1, 1, FALSE, <<"w">>, 0,
                          [NoSignals EXCEPT !.approved_pr = apr]) : apr \in AprKinds }

\* a github candidate with each kind of approved_pr, alone or next to one
\* candidate of the pool
SignalInputs ==
    { <<g>> : g \in GithubVariants }
    \cup { cs \in { <<c, g>> : c \in RankPool, g \in GithubVariants }
                 \cup { <<g, c>> : c \in RankPool, g \in GithubVariants } :
             UniqueWithinSource(cs) }

\* the three documents of the "deploy window" scenario: a drive document aged
\* 1 day in the folder Runbooks, a github document aged 2 days with 30
\* approvals under /docs, a slack message aged 10 days, pinned and accepted.
\* Titles, snippets and urls are left open.
ScenarioDocs(src) ==
    { NormalizedCandidate(src, ProviderIndex(src), u, th, snip,
                          CASE src = "drive" -> 1 [] src = "github" -> 2 [] OTHER -> 10,
                          CASE src = "drive" -> [NoSignals EXCEPT !.folder = "Runbooks"]
                            [] src = "github" ->
                                 [NoSignals EXCEPT !.approved_pr = [k |-> "int", v |-> 30],
                                                   !.path_hint = "/docs"]
                            [] OTHER -> [NoSignals EXCEPT !.pinned = TRUE, !.accepted = TRUE]) :
        u \in 1..2, th \in BOOLEAN, snip \in {<<"w">>, <<"Q">>} }

AllScenarioDocs ==
    ScenarioDocs("slack") \cup ScenarioDocs("drive") \cup ScenarioDocs("github")

\* the three documents in each of the six orders
ScenarioInputs ==
    { cs \in { <<a, b, c>> : a \in AllScenarioDocs, b \in AllScenarioDocs,
                             c \in AllScenarioDocs } :
        {cs[i].source : i \in 1..3} = Sources }

InitRank ==
    /\ registered = {}
    /\ call = [p \in ProviderSet |-> Task("idle", NoBehaviour, NoResult)]
    /\ gc = "idle"
    /\ merged = <<>>
    /\ timings = EmptyDict
    /\ ask = [pc |-> "done", query |-> "", out |-> NoOutcome]
    /\ TRACE_STORE = EmptyDict
    /\ \E cs \in RankInputs \cup SignalInputs \cup ScenarioInputs :
           rk_in = [cands |-> cs, query |-> "deploy window"]
    /\ rk_out = NoRank
    /\ gd_in = NoGuardInput
    /\ gd_out = NoGuard
    /\ finished = <<>>

\* chosen, scores, reasons = rank(candidates, query)
CallRank ==
    /\ rk_out.status = "none"
    /\ rk_out' = rank(rk_in.cands, rk_in.query)
    /\ UNCHANGED <<rk_in, registered, call, gc, merged, timings, ask, TRACE_STORE, guardVars, finished>>

NextRank == CallRank

SpecRank == InitRank /\ [][NextRank]_vars

-----------------------------------------------------------------------------
(* Properties of gather_candidates *)

\* gather_candidates has finished: it returned or an exception left it
Finished == gc \in {"returned", "raised"}

\* the runners' results the join hands to the merge loop
Results == [p \in ProviderSet |-> call[p].result]

\* the candidates of provider p in the returned list, in order
OutputOf(p) == SelectSeq(merged, LAMBDA c : c.source = p)

\* what the provider's call handed back, if it returned a value
Raw(p) == call[p].behav.res
ReturnedList(p) ==
    /\ p \in registered
    /\ call[p].behav.kind = "return"
    /\ Raw(p).type = "list"

\* the same aggregation with the providers in S left out of the registration
\* and every other runner's result unchanged
Without(S) == gather_candidates(registered \ S, Results)

\* gather_candidates ended as ref did, with the same candidates and the same
\* outcome entries for the providers outside S
SameAsWithout(S, ref) ==
    /\ gc = ref.status
    /\ gc = "returned" =>
          /\ merged = ref.merged
          /\ \A q \in registered \ S : timings[q] = ref.timings[q]

\* the providers whose call blocked until the timeout cancelled it
Stuck == {p \in registered : call[p].behav.kind = "hang"}

C1_StuckEntry(p) ==
    /\ timings[p].timeout = 1
    /\ timings[p].error = ""
    /\ timings[p].count = 0
    /\ OutputOf(p) = <<>>

C1_Isolated ==
    (Finished /\ Stuck # {}) =>
        /\ SameAsWithout(Stuck, Without(Stuck))
        /\ gc = "returned" => \A p \in Stuck : C1_StuckEntry(p)

\* the timeout of one call leaves every other runner as it was
C1_NoSiblingCancelled ==
    [][\A p \in ProviderSet :
          (call[p].st = "hung" /\ call'[p].st = "done") =>
              \A q \in ProviderSet \ {p} : call'[q] = call[q]]_vars

C1_EventuallyFinished ==
    \A p \in ProviderSet : (call[p].st = "hung") ~> Finished

\* C1: a provider whose call never returns does not keep gather_candidates
\* from finishing: once its timeout fires the aggregation finishes; the stuck
\* provider is recorded with timeout = 1 and count = 0 and contributes no
\* candidate; no other runner is touched by the timeout; and the aggregation
\* ends exactly as it would have with the stuck providers not registered
\* (same candidates, same outcome entries for the others).
C1_TimeoutIsolation ==
    /\ []C1_Isolated
    /\ C1_NoSiblingCancelled
    /\ C1_EventuallyFinished

\* a stuck provider timed out while another one contributed candidates
C1_Witness ==
    /\ gc = "returned"
    /\ \E p \in Stuck : timings[p].timeout = 1
    /\ \E q \in registered \ Stuck : timings[q].count > 0

\* the providers whose call raised
Failed == {p \in registered : call[p].behav.kind = "raise"}

C2_Entry(p, error, timeout) ==
    /\ timings[p].error = error
    /\ timings[p].timeout = timeout
    /\ timings[p].count = 0
    /\ OutputOf(p) = <<>>

\* C2 as stated: a provider whose call raises is recorded with the class name
\* of the error in "error" and contributes no candidate, and the aggregation
\* ends as it would have with the failed providers not registered.
C2_ErrorIsolation ==
    (Finished /\ Failed # {}) =>
        /\ SameAsWithout(Failed, Without(Failed))
        /\ gc = "returned" =>
              \A p \in Failed : timings[p].error = call[p].behav.err
                                   /\ timings[p].count = 0
                                   /\ OutputOf(p) = <<>>

\* C2, amended: as stated, except that an asyncio.TimeoutError raised by the
\* provider itself is recorded as a timeout (timeout = 1, error empty) and
\* not by its class name; every other error class is recorded by name with
\* timeout = 0.
C2_ErrorIsolationAmended ==
    (Finished /\ Failed # {}) =>
        /\ SameAsWithout(Failed, Without(Failed))
        /\ gc = "returned" =>
              \A p \in Failed :
                  IF call[p].behav.err = "TimeoutError"
                  THEN C2_Entry(p, "", 1)
                  ELSE C2_Entry(p, call[p].behav.err, 0)

\* one provider raised asyncio.TimeoutError, one raised another error, and a
\* third contributed candidates
C2_Witness ==
    /\ gc = "returned"
    /\ \E p \in Failed : call[p].behav.err = "TimeoutError" /\ timings[p].timeout = 1
    /\ \E p \in Failed : timings[p].error = "HTTPStatusError"
    /\ \E q \in registered \ Failed : timings[q].count > 0

\* C3 as stated: whatever value a provider returns without raising,
\* gather_candidates returns normally: no exception leaves it, every
\* registered provider is recorded in the outcomes.
C3_PayloadNeverEscalates ==
    Finished => (gc = "returned" /\ DOMAIN timings = registered)

-----------------------------------------------------------------------------
(* Properties of item validation and of the rate-limit sentinel *)

\* an item that is a NormalizedCandidate or a dict that validates as one
IsValidItem(item) ==
    \/ item.kind = "nc"
    \/ item.kind = "dict" /\ item.ids /\ item.valid

\* the candidates of the valid items of a list, in the order of the list
ValidCands(items) ==
    LET idx == SelectSeq([i \in 1..Len(items) |-> i], LAMBDA i : IsValidItem(items[i]))
    IN [k \in 1..Len(idx) |-> items[idx[k]].cand]

\* a dict with a truthy "rate_limited" key
IsRateLimitEntry(item) == item.kind = "dict" /\ item.rl

HasRateLimitEntry(res) == \E i \in 1..Len(res.items) : IsRateLimitEntry(res.items[i])

\* the list consists of one rate-limit entry and nothing else
SoleRateLimitEntry(res) == Len(res.items) = 1 /\ IsRateLimitEntry(res.items[1])

\* C4 as stated: of a provider's returned list exactly the valid items are in
\* the output, in the order of the list; every other item is dropped.
C4_ItemValidation ==
    gc = "returned" =>
        \A p \in registered :
            ReturnedList(p) => OutputOf(p) = ValidCands(Raw(p).items)

\* C4, amended: as stated, except for a list whose only item is a dict with a
\* truthy rate_limited key: that list is taken as the rate-limit sentinel and
\* contributes nothing, also when the dict validates as a candidate.
C4_ItemValidationAmended ==
    gc = "returned" =>
        \A p \in registered :
            ReturnedList(p) =>
                OutputOf(p) = (IF SoleRateLimitEntry(Raw(p)) THEN <<>>
                               ELSE ValidCands(Raw(p).items))

\* a returned list with a validating dict, a candidate object and a dropped
\* item: the two valid ones are in the output
C4_Witness ==
    /\ gc = "returned"
    /\ \E p \in registered :
          /\ ReturnedList(p)
          /\ \E i, j, k \in 1..Len(Raw(p).items) :
                /\ Raw(p).items[i].kind = "dict" /\ IsValidItem(Raw(p).items[i])
                /\ Raw(p).items[j].kind = "nc"
                /\ ~IsValidItem(Raw(p).items[k])
          /\ Len(OutputOf(p)) = 2

\* the candidates of the rate-limit entries of p's list that are in the output
LeakedEntries(p) ==
    {i \in 1..Len(Raw(p).items) :
        /\ IsRateLimitEntry(Raw(p).items[i])
        /\ \E k \in 1..Len(OutputOf(p)) : OutputOf(p)[k] = Raw(p).items[i].cand}

\* C5 as stated: a returned list that contains a rate-limit entry, alone or
\* among other items, sets rate_limited = 1 for the provider, and no such
\* entry is among the returned candidates.
C5_RateLimitDetection ==
    gc = "returned" =>
        \A p \in registered :
            (ReturnedList(p) /\ HasRateLimitEntry(Raw(p))) =>
                timings[p].rate_limited = 1 /\ LeakedEntries(p) = {}

\* C5, amended: rate_limited = 1 exactly when the returned list consists of
\* one rate-limit entry and nothing else, and then the provider contributes
\* no candidate; a rate-limit entry among other items is not detected
\* (rate_limited stays 0).
C5_RateLimitDetectionAmended ==
    gc = "returned" =>
        \A p \in registered :
            ReturnedList(p) =>
                IF SoleRateLimitEntry(Raw(p))
                THEN timings[p].rate_limited = 1
                     /\ timings[p].count = 0 /\ OutputOf(p) = <<>>
                ELSE timings[p].rate_limited = 0

\* one provider returned the sentinel alone and is flagged; another returned
\* it next to a candidate and is not
C5_Witness ==
    /\ gc = "returned"
    /\ \E p \in registered :
          ReturnedList(p) /\ SoleRateLimitEntry(Raw(p)) /\ timings[p].rate_limited = 1
    /\ \E q \in registered :
          /\ ReturnedList(q) /\ HasRateLimitEntry(Raw(q)) /\ Len(Raw(q).items) > 1
          /\ timings[q].rate_limited = 0

-----------------------------------------------------------------------------
(* Properties of the returned list and of the join *)

\* the valid candidates of what provider p's runner handed to the merge
ValidOf(p) == ValidCands(call[p].result.res.items)

\* the sum of the count fields of all outcomes
SumOfCounts ==
    SeqSum([i \in 1..Len(Providers) |->
               IF Providers[i] \in DOMAIN timings THEN timings[Providers[i]].count
               ELSE 0])

\* C6: the list gather_candidates returns holds every valid candidate of
\* every provider, however many they are: its length is the sum of the count
\* fields, and each provider's count is the number of its candidates in the
\* list, which are all its valid candidates.
C6_NoTruncation ==
    gc = "returned" =>
        /\ Len(merged) = SumOfCounts
        /\ \A p \in registered :
              /\ timings[p].count = Len(OutputOf(p))
              /\ OutputOf(p) = ValidOf(p)

\* more candidates than the limit were found, and all were returned
C6_Witness ==
    /\ gc = "returned"
    /\ Len(merged) > Limit
    /\ \A p \in registered : timings[p].count > 0

\* C7: gather_candidates finishes only when every registered provider's call
\* is done (returned, raised or timed out), and the outcomes it returns have
\* one entry for each registered provider and none for any other.
C7_JoinBarrier ==
    /\ Finished => \A p \in registered : call[p].st = "done"
    /\ gc = "returned" => DOMAIN timings = registered

\* two of three providers registered: one timed out, the other raised
C7_Witness ==
    /\ gc = "returned"
    /\ Cardinality(registered) = 2
    /\ \E p \in registered : timings[p].timeout = 1
    /\ \E q \in registered : timings[q].error # ""
    /\ DOMAIN timings # ProviderSet

\* C8: with no provider registered gather_candidates does not wait for
\* anything and returns an empty list and an empty outcomes mapping; it does
\* not raise.
C8_ZeroProviders ==
    registered = {} =>
        /\ gc = "waiting" => ENABLED GatherJoin
        /\ gc # "raised"
        /\ gc = "returned" => (merged = <<>> /\ timings = EmptyDict)

\* the call with no provider registered has returned
C8_Witness == registered = {} /\ gc = "returned" /\ merged = <<>>

-----------------------------------------------------------------------------
(* Properties of ask_endpoint *)

\* the diagnostics of provider p, as ask_endpoint reads them from the outcomes
Diagnostics(p) ==
    IF p \in DOMAIN timings
    THEN [timeout |-> timings[p].timeout, error |-> timings[p].error,
          rate_limited |-> timings[p].rate_limited]
    ELSE [timeout |-> 0, error |-> "None", rate_limited |-> 0]

\* the request ended after an aggregation that yielded no candidate
EndedEmpty == ask.pc = "done" /\ gc = "returned" /\ merged = <<>>

\* C9: when the aggregation yields no candidate the request calls neither
\* rank nor guard and ends with 503 "No providers available", and by then
\* TRACE_STORE holds, under the request's trace id, a trace with every
\* provider's diagnostics and no candidates; 503 is the outcome of no other
\* request.
C9_EmptyShortCircuit ==
    /\ EndedEmpty =>
          /\ ask.out.status = 503
          /\ ask.out.body.detail = "No providers available"
          /\ ask.out.rank_calls = 0
          /\ ask.out.guard_calls = 0
          /\ TraceId \in DOMAIN TRACE_STORE
          /\ TRACE_STORE[TraceId].trace_id = TraceId
          /\ TRACE_STORE[TraceId].candidates = <<>>
          /\ \A p \in ProviderSet :
                TRACE_STORE[TraceId].provider_flags[p] = Diagnostics(p)
    /\ ask.out.status = 503 => EndedEmpty

\* every provider was registered and none produced a candidate: one timed
\* out, one failed, one had all its items dropped
C9_Witness ==
    /\ EndedEmpty
    /\ ask.out.status = 503
    /\ registered = ProviderSet
    /\ \E p \in registered : timings[p].timeout = 1
    /\ \E p \in registered : timings[p].error # ""
    /\ \E p \in registered : ReturnedList(p) /\ Raw(p).items # <<>>

-----------------------------------------------------------------------------
(* Properties of rank *)

\* another candidate of the sequence has the url of candidate i
SharesUrl(cands, i) ==
    \E j \in 1..Len(cands) : j # i /\ cands[j].url = cands[i].url

\* the total score of candidate i: its weighted sum, plus the consensus bonus
\* when the bonus applies to it
TotalOf(cands, query, i) ==
    score_candidate(cands[i], query)
    + (IF SharesUrl(cands, i) THEN ConsensusBonus ELSE 0)

\* C10 as stated: the winner rank returns for a non-empty sequence has a
\* total score no lower than the total score of any candidate of the sequence.
C10_WinnerHasMaxTotal ==
    rk_out.status = "ok" =>
        \A j \in 1..Len(rk_in.cands) :
            TotalOf(rk_in.cands, rk_in.query, j)
                <= TotalOf(rk_in.cands, rk_in.query, rk_out.chosen)

\* the score rank records for candidate i
RecordedOf(i) == rk_out.scores[rk_in.cands[i].doc_id]

\* C11 as stated: every candidate of the input whose url is shared with
\* another candidate ends with its base score plus the consensus bonus, added
\* once however many candidates share the url, and a candidate whose url is
\* shared with no other candidate ends with its base score.
C11_ConsensusOnce ==
    rk_out.status = "ok" =>
        \A i \in 1..Len(rk_in.cands) :
            RecordedOf(i) - score_candidate(rk_in.cands[i], rk_in.query)
                = (IF SharesUrl(rk_in.cands, i) THEN ConsensusBonus ELSE 0)

\* the candidates whose total score is the highest of the sequence
Top(cands, query) ==
    {i \in 1..Len(cands) :
        \A j \in 1..Len(cands) : TotalOf(cands, query, j) <= TotalOf(cands, query, i)}

\* C12 as stated: when several candidates share the highest total score, the
\* winner is the one of them that occurs first in the input sequence.
C12_FirstOfTied ==
    (rk_out.status = "ok" /\ Cardinality(Top(rk_in.cands, rk_in.query)) >= 2) =>
        rk_out.chosen = SetMin(Top(rk_in.cands, rk_in.query))

\* C13 as stated: rank raises for the empty sequence and returns a winner, a
\* score for every candidate and a reason list for every candidate for every
\* non-empty sequence of schema-valid candidates, whatever their signals hold.
C13_FailsOnlyOnEmpty ==
    rk_out.status # "none" =>
        IF rk_in.cands = <<>> THEN rk_out.status = "raised"
        ELSE /\ rk_out.status = "ok"
             /\ rk_out.chosen \in 1..Len(rk_in.cands)
             /\ \A i \in 1..Len(rk_in.cands) :
                    /\ rk_in.cands[i].doc_id \in DOMAIN rk_out.scores
                    /\ rk_in.cands[i].doc_id \in DOMAIN rk_out.reasons

\* rank was called with the three documents of the "deploy window" scenario
IsScenario ==
    /\ Len(rk_in.cands) = 3
    /\ {rk_in.cands[i].source : i \in 1..3} = Sources
    /\ \A i \in 1..3 : rk_in.cands[i] \in ScenarioDocs(rk_in.cands[i].source)
    /\ rk_in.query = "deploy window"

\* C15: in the "deploy window" scenario, in each order of the three documents,
\* the slack message is not the winner, and the drive or the github document
\* has a strictly higher total than the slack message.
C15_ReferenceScenario ==
    (IsScenario /\ rk_out.status # "none") =>
        /\ rk_out.status = "ok"
        /\ rk_in.cands[rk_out.chosen].source # "slack"
        /\ \A i \in 1..3 : rk_in.cands[i].source = "slack" =>
              \E j \in 1..3 :
                  /\ rk_in.cands[j].source \in {"drive", "github"}
                  /\ TotalOf(rk_in.cands, rk_in.query, j) > TotalOf(rk_in.cands, rk_in.query, i)
                  /\ RecordedOf(j) > RecordedOf(i)

\* the slack message comes first and is the only document that mentions the
\* query, in its title and in its text
C15_Witness ==
    /\ IsScenario
    /\ rk_out.status = "ok"
    /\ rk_in.cands[1].source = "slack"
    /\ \A i \in 1..3 :
          /\ rk_in.cands[i].title_hit = (i = 1)
          /\ BodyHit(rk_in.cands[i], rk_in.query) = (i = 1)
    /\ rk_in.cands[rk_out.chosen].source = "github"

-----------------------------------------------------------------------------
(* score_candidate alone: two candidates that differ in last_modified only,
   scored at the same instant *)

MaxFutureDays == 3
MaxAgeDays == 8

\* now - last_modified in whole days, negative for a timestamp later than now
AgeDays == (0 - MaxFutureDays)..MaxAgeDays

NoScores == [status |-> "none", fresh |-> <<>>, total |-> <<>>]

InitScore ==
    /\ registered = {}
    /\ call = [p \in ProviderSet |-> Task("idle", NoBehaviour, NoResult)]
    /\ gc = "idle"
    /\ merged = <<>>
    /\ timings = EmptyDict
    /\ ask = [pc |-> "done", query |-> "", out |-> NoOutcome]
    /\ TRACE_STORE = EmptyDict
    /\ \E src \in Sources, a1 \in AgeDays, a2 \in AgeDays :
          rk_in = [cands |-> << NormalizedCandidate(src, 1, 1, FALSE, <<"w">>, a1, NoSignals),
                                NormalizedCandidate(src, 1, 1, FALSE, <<"w">>, a2, NoSignals) >>,
                   query |-> "deploy window"]
    /\ rk_out = NoScores
    /\ gd_in = NoGuardInput
    /\ gd_out = NoGuard
    /\ finished = <<>>

\* fresh = _freshness_score(c.last_modified) and score_candidate(c, query)
\* for both candidates
ScoreBoth ==
    /\ rk_out.status = "none"
    /\ rk_out' = [status |-> "scored",
                  fresh |-> [i \in 1..2 |-> _freshness_score(rk_in.cands[i].age)],
                  total |-> [i \in 1..2 |-> score_candidate(rk_in.cands[i], rk_in.query)]]
    /\ UNCHANGED <<rk_in, registered, call, gc, merged, timings, ask, TRACE_STORE, guardVars, finished>>

NextScore == ScoreBoth

SpecScore == InitScore /\ [][NextScore]_vars

\* candidate i has the strictly more recent last_modified of the two
MoreRecent(i, j) == rk_in.cands[i].age < rk_in.cands[j].age

-----------------------------------------------------------------------------
(* guard alone *)

MaxRanked == 3

\* Snippets with nothing to redact and no time, with a time, with a secret
\* next to a time, with a time inside a password assignment, and with an
\* access key inside a Bearer header
GuardSnippets ==
    { <<"w">>,
      <<"w", " ", "3pm">>,
      <<"w", " ", "4pm">>,
      <<"w", " ", "3 PM">>,
      <<"AKIA", " ", "3pm">>,
      <<"password", "=", " ", "3pm">>,
      <<"Bearer", " ", "AKIA", ".", "w">> }

\* one document per source; the slack and the drive document have the same
\* doc_id
GuardDoc(src, snip) ==
    NormalizedCandidate(src, IF src = "github" THEN 2 ELSE 1, ProviderIndex(src),
                        FALSE, snip, 0, NoSignals)

GuardPool == { GuardDoc(src, snip) : src \in Sources, snip \in GuardSnippets }

RankedLists ==
    { cs \in SeqsOf(GuardPool, 0, MaxRanked) : UniqueWithinSource(cs) }

\* a winner that is not an object of the list
OutsideWinners ==
    { GuardDoc(src, snip) : src \in Sources,
                            snip \in { <<"w">>, <<"w", " ", "3pm">>, <<"AKIA", " ", "3pm">> } }

InitGuard ==
    /\ registered = {}
    /\ call = [p \in ProviderSet |-> Task("idle", NoBehaviour, NoResult)]
    /\ gc = "idle"
    /\ merged = <<>>
    /\ timings = EmptyDict
    /\ ask = [pc |-> "done", query |-> "", out |-> NoOutcome]
    /\ TRACE_STORE = EmptyDict
    /\ rk_in = NoRankInput
    /\ rk_out = NoRank
    /\ \E ranked \in RankedLists :
          \/ \E ci \in 1..Len(ranked) :
                gd_in = [chosen |-> ranked[ci], ci |-> ci, ranked |-> ranked]
          \/ \E ch \in OutsideWinners \cup {None} :
                gd_in = [chosen |-> ch, ci |-> 0, ranked |-> ranked]
    /\ gd_out = NoGuard
    /\ finished = <<>>

\* guard(chosen, ranked_by_score, scores_by_id)
CallGuard ==
    /\ gd_out.status = "none"
    /\ gd_out' = guard(gd_in.chosen, gd_in.ci, gd_in.ranked)
    /\ UNCHANGED <<gd_in, hubVars, rankVars, finished>>

NextGuard == CallGuard

SpecGuard == InitGuard /\ [][NextGuard]_vars

\* C16: for every winner and every ranked list of candidates, the empty list
\* and a list without the winner included, guard returns the winner, a
\* redaction list, a conflict flag and a banner and does not raise.
C16_GuardNeverFails ==
    (gd_out.status # "none" /\ gd_in.chosen # None) =>
        /\ gd_out.status = "ok"
        /\ gd_out.chosen.doc_id = gd_in.chosen.doc_id
        /\ gd_out.chosen.source = gd_in.chosen.source
        /\ gd_out.conflict \in BOOLEAN
        /\ (gd_out.banner = <<>>) = ~gd_out.conflict
        /\ \A i \in 1..Len(gd_out.redactions) :
              \E j \in 1..Len(gd_in.ranked) : gd_in.ranked[j].doc_id = gd_out.redactions[i]

\* guard returned for an empty list and a winner with nothing to redact and
\* no time
C16_Witness ==
    /\ gd_out.status = "ok"
    /\ gd_in.ranked = <<>>
    /\ gd_in.chosen # None
    /\ gd_in.chosen.snippet = <<"w">>
    /\ gd_out.redactions = <<>>
    /\ ~gd_out.conflict
    /\ gd_out.banner = <<>>

\* some pattern of _TOKEN_PATTERNS matches somewhere in the text
HasMatch(text) ==
    \E pat \in 1..4, i \in 1..Len(text) : MatchAt(pat, text, i).n > 0

\* the positions of the text that lie inside a match of some pattern
MatchedPositions(text) ==
    {j \in 1..Len(text) :
        \E pat \in 1..4, i \in 1..j :
            MatchAt(pat, text, i).n > 0 /\ j < i + MatchAt(pat, text, i).n}

\* what the text holds outside its matches, markers left out
RECURSIVE OutsideFrom(_, _)
OutsideFrom(text, j) ==
    IF j > Len(text) THEN <<>>
    ELSE (IF j \in MatchedPositions(text)
          THEN (IF text[j] \in SplitAtoms THEN SplitRest ELSE <<>>)
          ELSE (IF text[j] = Marker THEN <<>> ELSE <<text[j]>>))
         \o OutsideFrom(text, j + 1)

\* the text with its markers left out
Kept(text) == SelectSeq(text, LAMBDA a : a # Marker)

\* candidate i of the ranked list had its snippet changed by guard
Changed(i) == gd_out.ranked[i].snippet # gd_in.ranked[i].snippet

\* the doc ids of the candidates guard changed, in the order of the list
RECURSIVE ChangedIds(_)
ChangedIds(i) ==
    IF i > Len(gd_in.ranked) THEN <<>>
    ELSE (IF Changed(i) THEN <<gd_in.ranked[i].doc_id>> ELSE <<>>) \o ChangedIds(i + 1)

\* C17 as stated: after guard, no snippet of the ranked list holds a match of
\* a sensitive pattern, every match of the snippet it had was replaced by
\* the marker, the redaction list holds the doc ids of the changed
\* candidates, and a candidate without a match is unchanged and its doc id
\* is not in the list.
C17_RedactionComplete ==
    gd_out.status = "ok" =>
        /\ gd_out.redactions = ChangedIds(1)
        /\ \A i \in 1..Len(gd_in.ranked) :
              /\ ~HasMatch(gd_out.ranked[i].snippet)
              /\ Kept(gd_out.ranked[i].snippet) = OutsideFrom(gd_in.ranked[i].snippet, 1)
              /\ ~HasMatch(gd_in.ranked[i].snippet) =>
                    /\ ~Changed(i)
                    /\ \A k \in 1..Len(gd_out.redactions) :
                          gd_out.redactions[k] # gd_in.ranked[i].doc_id

\* the parts of C17 that hold: no match is left, the redaction list is the
\* list of the doc ids of the changed candidates, a candidate without a match
\* is unchanged
C17_NoMatchLeft ==
    gd_out.status = "ok" =>
        /\ gd_out.redactions = ChangedIds(1)
        /\ \A i \in 1..Len(gd_in.ranked) :
              /\ ~HasMatch(gd_out.ranked[i].snippet)
              /\ Changed(i) = HasMatch(gd_in.ranked[i].snippet)

-----------------------------------------------------------------------------
(* redact alone, applied to a text and again to its result *)

MaxText == 4

RedactAtoms == Atoms \ {"4pm", "3 PM"}

InitRedact ==
    /\ registered = {}
    /\ call = [p \in ProviderSet |-> Task("idle", NoBehaviour, NoResult)]
    /\ gc = "idle"
    /\ merged = <<>>
    /\ timings = EmptyDict
    /\ ask = [pc |-> "done", query |-> "", out |-> NoOutcome]
    /\ TRACE_STORE = EmptyDict
    /\ rk_in = NoRankInput
    /\ rk_out = NoRank
    /\ \E n \in 0..MaxText : \E t \in [1..n -> RedactAtoms] : gd_in = [text |-> t]
    /\ gd_out = [status |-> "none", once |-> <<>>, twice |-> <<>>]
    /\ finished = <<>>

\* after = redact(before)
RedactOnce ==
    /\ gd_out.status = "none"
    /\ gd_out' = [status |-> "once", once |-> redact(gd_in.text), twice |-> <<>>]
    /\ UNCHANGED <<gd_in, hubVars, rankVars, finished>>

\* redact(after)
RedactAgain ==
    /\ gd_out.status = "once"
    /\ gd_out' = [gd_out EXCEPT !.status = "twice", !.twice = redact(gd_out.once)]
    /\ UNCHANGED <<gd_in, hubVars, rankVars, finished>>

NextRedact == RedactOnce \/ RedactAgain

SpecRedact == InitRedact /\ [][NextRedact]_vars

\* C18: redact(redact(t)) = redact(t) for every text t, and the text redact
\* returns holds no match of any of the four patterns, whatever stands next
\* to its markers.
C18_RedactIdempotent ==
    /\ gd_out.status = "twice" => gd_out.twice = gd_out.once
    /\ gd_out.status # "none" => ~HasMatch(gd_out.once)

\* an access key behind "Bearer ": the first pattern leaves its marker where
\* the third pattern would have matched, and the second run changes nothing
C18_Witness ==
    /\ gd_out.status = "twice"
    /\ gd_in.text = <<"Bearer", " ", "AKIA">>
    /\ gd_out.once = <<"Bearer", " ", Marker>>
    /\ gd_out.twice = gd_out.once

\* the time token guard reads on the winner and on candidate i of the list,
\* after the redaction
WinnerTime == _extract_time_token(gd_out.chosen.snippet)
TimeOf(i) == _extract_time_token(gd_out.ranked[i].snippet)

\* candidate i of the list is another document than the winner
OtherThanWinner(i) ==
    \/ gd_in.ranked[i].source # gd_in.chosen.source
    \/ gd_in.ranked[i].doc_id # gd_in.chosen.doc_id

\* the candidates other than the winner with a time token that differs from
\* the winner's
Disagreeing ==
    {i \in 1..Len(gd_in.ranked) :
        OtherThanWinner(i) /\ TimeOf(i) # "" /\ TimeOf(i) # WinnerTime}

\* C19 as stated: when the winner has a time token, the contradictor is the
\* first candidate of the ranked list, other than the winner, with a time
\* token different from the winner's; conflict is then true and the banner
\* names the two sources; no later disagreeing candidate is selected.
C19_TimedConflict ==
    (gd_out.status = "ok" /\ WinnerTime # "") =>
        IF Disagreeing = {}
        THEN ~gd_out.conflict
        ELSE /\ gd_out.conflict
             /\ gd_out.contradictor = SetMin(Disagreeing)
             /\ gd_out.banner = <<gd_in.chosen.source,
                                  gd_in.ranked[SetMin(Disagreeing)].source>>

\* the time tokens found among the candidates of the ranked list
TimesFound == {TimeOf(i) : i \in 1..Len(gd_in.ranked)} \ {""}

\* C20 as stated: when the winner has no time token and two or more distinct
\* time tokens are found among the candidates of the ranked list, guard
\* selects a candidate other than the winner as contradictor and returns
\* conflict = true with a banner that is not empty.
C20_UntimedConflict ==
    (gd_out.status = "ok" /\ WinnerTime = "" /\ Cardinality(TimesFound) >= 2) =>
        /\ gd_out.conflict
        /\ gd_out.contradictor \in 1..Len(gd_in.ranked)
        /\ OtherThanWinner(gd_out.contradictor)
        /\ gd_out.banner # <<>>

\* doc_id is unique within a source: an entry of the list with the winner's
\* source and doc_id is the winner, the object itself or an equal copy
WinnerDocOnce ==
    \A i \in 1..Len(gd_in.ranked) :
        OtherThanWinner(i) \/ i = gd_in.ci \/ gd_in.ranked[i] = gd_in.chosen

\* C21: in every result of guard, conflict is true exactly when the banner is
\* not empty, and then the banner names the winner's source and the source
\* of the contradictor, a candidate of the list other than the winner.
C21_ConflictBannerAgree ==
    gd_out.status = "ok" =>
        /\ gd_out.conflict = (gd_out.banner # <<>>)
        /\ gd_out.conflict =>
              /\ gd_out.contradictor \in 1..Len(gd_in.ranked)
              /\ gd_out.banner = <<gd_in.chosen.source,
                                   gd_in.ranked[gd_out.contradictor].source>>
              /\ gd_out.contradictor # gd_in.ci
              /\ WinnerDocOnce => OtherThanWinner(gd_out.contradictor)

\* the winner has no time token, a drive and a github candidate after it
\* carry the same one, and the banner names slack and github
C21_Witness ==
    /\ gd_out.status = "ok"
    /\ gd_in.ci = 1
    /\ Len(gd_in.ranked) = 3
    /\ WinnerTime = ""
    /\ gd_in.chosen.source = "slack"
    /\ gd_out.conflict
    /\ gd_out.banner = <<"slack", "github">>

-----------------------------------------------------------------------------
(* Properties of ask_endpoint *)

\* the request produced an answer
Answered == ask.pc = "done" /\ ask.out.status = 200

\* the winner as guard left it, and as gather_candidates returned it
WinnerAfter == ask.out.body.sorted[ask.out.body.chosen]
WinnerBefore ==
    CHOOSE c \in {merged[i] : i \in 1..Len(merged)} :
        c.source = WinnerAfter.source /\ c.doc_id = WinnerAfter.doc_id

-----------------------------------------------------------------------------
(* gather_candidates with the completion order of its runners on record *)

\* the ways one provider call ends within gather_candidates
Endings(p) ==
    {Returns(res) : res \in Payloads(p, Cardinality(registered))}
        \cup {Raises(e) : e \in ErrorClasses} \cup {Slow}

\* lines 75-95: the runner of provider p completes, after any of the others
RunnerCompletes(p) ==
    /\ call[p].st = "pending"
    /\ \E b \in Endings(p) : Finish(p, b)
    /\ finished' = Append(finished, p)
    /\ UNCHANGED <<registered, gc, merged, timings, ask, TRACE_STORE, rk_in, rk_out, guardVars>>

NextMerge ==
    \/ GatherStart
    \/ \E p \in ProviderSet : RunnerCompletes(p)
    \/ GatherJoin

SpecMerge == InitHub /\ [][NextMerge]_vars

\* the valid candidates of provider p, none when p is not registered
PartOf(p) == IF p \in registered THEN ValidOf(p) ELSE <<>>

\* C23: the list gather_candidates returns is the slack candidates, then the
\* drive candidates, then the github candidates, each provider's in the order
\* it returned them, whatever the order in which the provider calls completed.
C23_MergeInRegistrationOrder ==
    gc = "returned" =>
        merged = PartOf("slack") \o PartOf("drive") \o PartOf("github")

\* github completed first and slack last, both with candidates, and the list
\* starts with slack's
C23_Witness ==
    /\ gc = "returned"
    /\ finished = <<"github", "drive", "slack">>
    /\ PartOf("slack") # <<>> /\ PartOf("github") # <<>>
    /\ merged[1].source = "slack" /\ merged[Len(merged)].source = "github"


\* the candidates the adapters produced as NormalizedCandidate objects
ProducedBy(p) ==
    IF ReturnedList(p)
    THEN {Raw(p).items[i].cand : i \in {j \in 1..Len(Raw(p).items) : Raw(p).items[j].kind = "nc"}}
    ELSE {}

\* candidate c with its snippet redacted and every other field as it is
Redacted(c) == [c EXCEPT !.snippet = redact(@)]

\* what rank returns for the list gather_candidates returned
RankOfMerged == rank(merged, ask.query)

\* C24: every candidate an adapter produced as a NormalizedCandidate is in the
\* list gather_candidates returns with every field as produced; the scores of
\* the response are those rank computed; the list guard leaves behind is the
\* descending-score list in the same order with nothing but the snippets
\* changed, each to its redaction; and the winner is the candidate rank chose.
C24_FrameCondition ==
    Answered =>
        /\ \A p \in registered : \A c \in ProducedBy(p) :
              \E i \in 1..Len(merged) : merged[i] = c
        /\ ask.out.body.scores = RankOfMerged.scores
        /\ Len(ask.out.body.sorted) = Len(merged)
        /\ \A i \in 1..Len(merged) :
              ask.out.body.sorted[i] =
                  Redacted(merged[SortDesc(merged, RankOfMerged.scores)[i]])
        /\ WinnerAfter = Redacted(merged[RankOfMerged.chosen])

\* three candidates were ranked into another order than they were merged in,
\* and guard redacted the snippet of one of them
C24_Witness ==
    /\ Answered
    /\ Len(merged) >= 3
    /\ SortDesc(merged, RankOfMerged.scores)[1] # 1
    /\ \E i \in 1..Len(merged) :
          ask.out.body.sorted[i].snippet #
              merged[SortDesc(merged, RankOfMerged.scores)[i]].snippet


-----------------------------------------------------------------------------
(* Properties of rank: the identity of a candidate *)

\* the reason trail of candidate i by its own components
TrailOf(cands, query, i) ==
    << <<"fresh", Fmt2(_freshness_score(cands[i].age))>>,
       <<"auth", Fmt2(_authority_score(cands[i]))>>,
       <<"spec", Fmt2(_specificity_score(cands[i], query))>> >>
    \o (IF SharesUrl(cands, i) THEN << <<"consensus", 5>> >> ELSE <<>>)

\* candidates i and j come from different sources and carry the same doc_id
SameIdAcrossSources(cands, i, j) ==
    cands[i].source # cands[j].source /\ cands[i].doc_id = cands[j].doc_id

\* C25 as stated: when two candidates from different sources carry the same
\* doc_id, the score recorded for each is its own total and the reason trail
\* recorded for each is its own trail, with the consensus reason at most once.
C25_IdentityBySourceAndId ==
    rk_out.status = "ok" =>
        \A i, j \in 1..Len(rk_in.cands) :
            SameIdAcrossSources(rk_in.cands, i, j) =>
                /\ RecordedOf(i) = TotalOf(rk_in.cands, rk_in.query, i)
                /\ rk_out.reasons[rk_in.cands[i].doc_id]
                       = TrailOf(rk_in.cands, rk_in.query, i)


-----------------------------------------------------------------------------
(* Properties of guard: redaction and detection *)

\* the time token of candidate i lies inside a span that redact replaces
HiddenTime(i) ==
    /\ _extract_time_token(gd_in.ranked[i].snippet) # ""
    /\ _extract_time_token(redact(gd_in.ranked[i].snippet)) = ""

\* the candidates of the list with a time token after redaction
Timed == {i \in 1..Len(gd_in.ranked) : TimeOf(i) # ""}

\* C26: guard extracts time tokens from the redacted snippets: every snippet
\* of the list is redacted in the result, the winner's token is that of its
\* redacted snippet, the contradictor has a token after redaction that
\* differs from the winner's or repeats another candidate's, and a conflict
\* needs two candidates of the list with a token after redaction; a token
\* inside a redacted span is seen on no candidate.
C26_RedactionBeforeDetection ==
    gd_out.status = "ok" =>
        /\ \A i \in 1..Len(gd_in.ranked) :
              gd_out.ranked[i].snippet = redact(gd_in.ranked[i].snippet)
        /\ gd_in.ci # 0 =>
              WinnerTime = _extract_time_token(redact(gd_in.chosen.snippet))
        /\ gd_out.conflict =>
              /\ gd_out.contradictor \in Timed
              /\ ~HiddenTime(gd_out.contradictor)
              /\ IF WinnerTime # ""
                 THEN TimeOf(gd_out.contradictor) # WinnerTime
                 ELSE \E j \in Timed \ {gd_out.contradictor} :
                         TimeOf(j) = TimeOf(gd_out.contradictor)
        /\ (gd_out.conflict /\ gd_in.ci # 0) => Cardinality(Timed) >= 2

\* the winner says 4pm, the only other candidate says 3pm inside a password
\* value, and no conflict is reported
C26_Witness ==
    /\ gd_out.status = "ok"
    /\ gd_in.ci = 1 /\ Len(gd_in.ranked) = 2
    /\ gd_in.chosen.source = "slack" /\ gd_in.ranked[2].source = "github"
    /\ WinnerTime = "4pm"
    /\ _extract_time_token(gd_in.ranked[2].snippet) = "3pm"
    /\ HiddenTime(2)
    /\ ~gd_out.conflict


\* the hour a time token states
HourOf(tok) ==
    CASE tok \in {"3pm", "3 pm"} -> 3
      [] tok = "4pm" -> 4
      [] OTHER -> 0

\* C27 as stated: when the winner has a time token, a candidate that states
\* the winner's hour, in whatever spelling, is never the contradictor, and
\* guard returns conflict = false if every candidate with a time token
\* states the winner's hour.
C27_SameHourNoConflict ==
    (gd_out.status = "ok" /\ WinnerTime # "") =>
        /\ gd_out.conflict =>
              HourOf(TimeOf(gd_out.contradictor)) # HourOf(WinnerTime)
        /\ (\A i \in Timed : HourOf(TimeOf(i)) = HourOf(WinnerTime))
              => ~gd_out.conflict

\* C28 as stated: when the winner has no time token and fewer than two
\* distinct time tokens occur among the candidates of the ranked list, guard
\* returns conflict = false and an empty banner.
C28_NoFalseConflict ==
    (gd_out.status = "ok" /\ WinnerTime = "" /\ Cardinality(TimesFound) < 2) =>
        /\ ~gd_out.conflict
        /\ gd_out.banner = <<>>


-----------------------------------------------------------------------------
(* Properties of the outcomes: the flags of one provider *)

\* how many of timeout, error and rate_limited outcome t reports
FlagsSet(t) ==
    (IF t.timeout = 1 THEN 1 ELSE 0) + (IF t.error # "" THEN 1 ELSE 0)
    + (IF t.rate_limited = 1 THEN 1 ELSE 0)

\* C29: every outcome gather_candidates returns reports at most one of
\* timeout, error and rate limit, with count 0 whenever it reports one; an
\* outcome with a positive count reports none of the three.
C29_FlagsConsistent ==
    gc = "returned" =>
        \A p \in DOMAIN timings :
            /\ FlagsSet(timings[p]) <= 1
            /\ FlagsSet(timings[p]) = 1 => timings[p].count = 0
            /\ timings[p].count > 0 =>
                  /\ timings[p].timeout = 0
                  /\ timings[p].error = ""
                  /\ timings[p].rate_limited = 0

\* one call returned candidates, one timed out and one was rate limited
C29_Witness ==
    /\ gc = "returned"
    /\ \E p, q, r \in DOMAIN timings :
          /\ timings[p].count > 0
          /\ timings[q].timeout = 1
          /\ timings[r].rate_limited = 1


-----------------------------------------------------------------------------
(* Properties of ask_endpoint: the winner and the ranked list *)

\* the score the response records for the candidate at position i of the
\* ranked list
ScoreAt(i) == ask.out.body.scores[ask.out.body.sorted[i].doc_id]

\* C30: the candidate rank returned is the first element of the
\* descending-score list handed to guard, also when several candidates have
\* the highest score; the first citation is its url and no candidate of the
\* list is scored above it.
C30_WinnerHeadsList ==
    Answered =>
        /\ ask.out.body.chosen = 1
        /\ ask.out.body.citations[1].url = WinnerAfter.url
        /\ \A i \in 1..Len(ask.out.body.sorted) : ScoreAt(i) <= ScoreAt(ask.out.body.chosen)
        /\ \A i \in 1..(Len(ask.out.body.sorted) - 1) : ScoreAt(i + 1) <= ScoreAt(i)

\* two different candidates have the highest score, and the winner is the
\* first of them
C30_Witness ==
    /\ Answered
    /\ Len(ask.out.body.sorted) >= 2
    /\ ask.out.body.sorted[1] # ask.out.body.sorted[2]
    /\ ScoreAt(2) = ScoreAt(1)
    /\ ask.out.body.chosen = 1

=============================================================================
